---------------------------- MODULE Spec2Model ----------------------------
(***************************************************************************)
(* Smart PDF translator: the page-translation pipeline                     *)
(* (streamlit_Book_translator.py: pdf_to_images, translate_image and the   *)
(* "Start Translation" loop), the detection-marker parse of a reply, and   *)
(* the script-aware renderer's language and font resolution                *)
(* (multilang_pdf_converter.py: txt_to_pdf_multilang).                     *)
(*                                                                         *)
(* A Python str is a sequence of tokens (TLA+ strings).  The substrings    *)
(* the code searches for, "[DETECTED:" and "]", are tokens of their own:   *)
(* "[DETECTED:" cannot overlap itself, so splitting a token sequence on    *)
(* the token is splitting the string on the substring.  A Python           *)
(* Optional[str] is a record [isNone, str].                                *)
(***************************************************************************)
EXTENDS Integers, Sequences, FiniteSets, TLC

VARIABLES
    pc,                 \* position of the running handler
    total_pages,        \* len(doc) of the uploaded PDF
    start_page,         \* first page of the range (1-based)
    end_page,           \* last page of the range (inclusive)
    source_lang,        \* "Auto-detect" or an explicit language
    docOpen,            \* the fitz document handle of pdf_to_images is open
    images,             \* pdf_to_images: the list built so far (page numbers)
    i,                  \* pages of `images` the translation loop has finished
    attempt,            \* translate_image: the loop variable
    responses,          \* translate_image: the responses of its attempts so far
    slept,              \* translate_image: the time.sleep calls so far (seconds)
    ret,                \* what translate_image returned
    history,            \* per finished page: the last response and the return
    all_translations,   \* the transcript entries
    failed_pages,       \* the failed page numbers
    detected_languages, \* the detected languages, in page order
    detected_language,  \* session_state.detected_language
    final_translation,  \* session_state.final_translation
    waits,              \* time.sleep(wait_time) calls of the loop so far
    reply,              \* marker parse: the reply under test
    parsed,             \* marker parse: the result
    target_language,    \* renderer: the argument, then its normalisation
    font_path,          \* renderer: the explicit font path argument
    found_font,         \* renderer: the resolved font file
    searched,           \* renderer: search paths examined, with what was there
    registered,         \* renderer: font names registered with pdfmetrics
    canvasOpen,         \* renderer: the canvas has been created
    result,             \* renderer: the (pdf_bytes, error) returned
    text_content,       \* layout: the text to lay out
    word_width,         \* layout: stringWidth of one word token in the font
    pages_content,      \* layout: the sections still to lay out
    section,            \* layout: pieces of the split taken so far
    lines,              \* layout: the lines of the section still to lay out
    line_no,            \* layout: lines of the section taken so far
    words,              \* layout: the words of the line still to place
    current_line,       \* layout: the candidate row
    y,                  \* layout: the vertical cursor
    page_rows,          \* layout: rows drawn on the page being composed
    pages               \* layout: the pages emitted by showPage

pvars == <<pc, total_pages, start_page, end_page, source_lang, docOpen, images,
           i, attempt, responses, slept, ret, history, all_translations,
           failed_pages, detected_languages, detected_language,
           final_translation, waits>>
mvars == <<reply, parsed>>
rvars == <<target_language, font_path, found_font, searched, registered,
           canvasOpen, result>>
lvars == <<text_content, word_width, pages_content, section, lines, line_no,
           words, current_line, y, page_rows, pages>>
vars == <<pvars, mvars, rvars, lvars>>

-----------------------------------------------------------------------------
(* Bounds *)

MaxPages == 3
MaxReplyLen == 5
MaxPad == 1
MaxLines == 12
MaxWords == 9
MaxBlanks == 120

-----------------------------------------------------------------------------
(* Python values *)

Range(s) == {s[k] : k \in 1..Len(s)}

\* Optional[str]: None, or a str
None == [isNone |-> TRUE, str |-> <<>>]
Some(s) == [isNone |-> FALSE, str |-> s]

\* truthiness of an Optional[str]: None and "" are falsy
Truthy(v) == ~v.isNone /\ v.str # <<>>

\* str(v) inside an f-string: None formats as "None"
Format(v) == IF v.isNone THEN <<"None">> ELSE v.str

-----------------------------------------------------------------------------
(* str.split, str.strip on token sequences *)

DETECTED == "[DETECTED:"
RBRACKET == "]"

\* the mark the transcript puts before a page, and the renderer splits on
SENTINEL == "--- Page"

Whitespace == {" ", "\n"}

\* index of the first occurrence of token t in s, 0 when there is none
IndexOf(s, t) ==
    IF t \in Range(s)
    THEN CHOOSE k \in 1..Len(s) : s[k] = t /\ \A j \in 1..(k - 1) : s[j] # t
    ELSE 0

RECURSIVE Split(_, _)
\* s.split(t): every piece between occurrences of t.  The string is cut at
\* the first occurrence of t in its second half and both sides are split;
\* with no occurrence there, the second half belongs to the last piece of
\* the first half.
Split(s, t) ==
    IF t \notin Range(s) THEN <<s>>
    ELSE LET mid == (Len(s) + 1) \div 2
             r == IndexOf(SubSeq(s, mid, Len(s)), t)
             k == mid + r - 1
         IN IF r > 0
            THEN Split(SubSeq(s, 1, k - 1), t)
                     \o Split(SubSeq(s, k + 1, Len(s)), t)
            ELSE LET first == Split(SubSeq(s, 1, mid - 1), t)
                 IN [first EXCEPT ![Len(first)] = @ \o SubSeq(s, mid, Len(s))]

\* s.split(t, 1): at most one split, at the first occurrence of t
Split1(s, t) ==
    LET k == IndexOf(s, t)
    IN IF k = 0 THEN <<s>>
       ELSE <<SubSeq(s, 1, k - 1), SubSeq(s, k + 1, Len(s))>>

RECURSIVE LStrip(_)
LStrip(s) == IF s # <<>> /\ Head(s) \in Whitespace THEN LStrip(Tail(s)) ELSE s

RECURSIVE RStrip(_)
RStrip(s) ==
    IF s # <<>> /\ s[Len(s)] \in Whitespace
    THEN RStrip(SubSeq(s, 1, Len(s) - 1)) ELSE s

\* s.strip()
Strip(s) == RStrip(LStrip(s))


-----------------------------------------------------------------------------
(* translate_image: the parse of the model's reply *)

\* ParseReply with the marker left in the translation
ParseReply_KeepMarker(translation) ==
    IF DETECTED \notin Range(translation)
    THEN [translation |-> translation, detected_lang |-> None]
    ELSE [translation |-> translation,
          detected_lang |->
              Some(Strip(Split(Split(translation, DETECTED)[2], RBRACKET)[1]))]

\* lines 300-311: detected_lang and translation from the reply text.  The
\* bare except swallows the IndexError of split("]", 1)[1] when the reply
\* holds no "]"; detected_lang has been assigned by then.
ParseReply(translation) ==
    IF DETECTED \notin Range(translation)
    THEN [translation |-> translation, detected_lang |-> None]
    ELSE LET detected_part ==
                 Strip(Split(Split(translation, DETECTED)[2], RBRACKET)[1])
             parts == Split1(translation, RBRACKET)
         IN IF Len(parts) < 2
            THEN [translation |-> translation,
                  detected_lang |-> Some(detected_part)]
            ELSE [translation |-> Strip(parts[2]),
                  detected_lang |-> Some(detected_part)]

-----------------------------------------------------------------------------
(* translate_image: the attempt loop *)

\* retry_count=3, the default the translation loop calls with
retry_count == 3

\* the replies a page's 2xx response may carry
PageReplies ==
    { <<>>,
      <<"x">>,
      <<DETECTED, " ", "Hindi", RBRACKET, "\n", "x">>,
      <<DETECTED, " ", "Tamil", RBRACKET, "\n", "x">>,
      <<DETECTED, " ", "Hindi", RBRACKET>>,
      <<DETECTED, " ", "Hindi">>,
      <<"x", "\n", SENTINEL, " ", "x">> }

\* What one requests.post can come to.  status 0: the call raised (timeout,
\* connection error) with message msg; a 2xx with body None: no usable
\* JSON body (response.json() or the indexing raises); the body of an
\* error status is response.text.
Responses ==
    { [status |-> 0, body |-> None, msg |-> <<"Read timed out">>] }
    \cup { [status |-> s, body |-> None, msg |-> <<>>] : s \in {404, 429} }
    \cup { [status |-> 500, body |-> Some(<<"Internal Server Error">>),
             msg |-> <<>>] }
    \cup { [status |-> 200, body |-> None, msg |-> <<"Expecting value">>] }
    \cup { [status |-> 200, body |-> Some(r), msg |-> <<>>] : r \in PageReplies }

ModelNotFound == <<"Model not found. Please select a different model.">>
RateLimited == <<"Rate limit exceeded. Please increase wait time or add credits.">>
AllFailed == <<"All retry attempts failed">>

Return(translation, detected_lang, error) ==
    [translation |-> translation, detected_lang |-> detected_lang,
     error |-> error]

NoReturn == Return(None, None, None)

\* RetryOr that gives up one attempt early
RetryOr_OneFewer(att, error) ==
    IF att < retry_count - 2
    THEN [continue |-> TRUE, ret |-> NoReturn]
    ELSE [continue |-> FALSE, ret |-> Return(None, None, Some(error))]

\* RetryOr that goes round once more
RetryOr_OneMore(att, error) ==
    IF att < retry_count
    THEN [continue |-> TRUE, ret |-> NoReturn]
    ELSE [continue |-> FALSE, ret |-> Return(None, None, Some(error))]

\* RetryOr that falls out of the loop when the attempts are used up
RetryOr_FallThrough(att, error) ==
    IF att < retry_count - 1
    THEN [continue |-> TRUE, ret |-> NoReturn]
    ELSE [continue |-> FALSE, ret |-> Return(None, None, Some(AllFailed))]

\* `continue` while attempts remain, else return the failure
RetryOr(att, error) ==
    IF att < retry_count - 1
    THEN [continue |-> TRUE, ret |-> NoReturn]
    ELSE [continue |-> FALSE, ret |-> Return(None, None, Some(error))]

\* Classify with a 404 handled like any other error status
Classify_Retry404(att, resp) ==
    IF resp.status = 0
    THEN RetryOr(att, resp.msg)
    ELSE IF resp.status = 429
    THEN RetryOr(att, RateLimited)
    ELSE IF resp.status >= 400
    THEN RetryOr(att, <<"HTTP Error ", ToString(resp.status)>>)
    ELSE IF resp.body.isNone
    THEN RetryOr(att, resp.msg)
    ELSE LET p == ParseReply(resp.body.str)
         IN [continue |-> FALSE,
             ret |-> Return(Some(p.translation), p.detected_lang, None)]

\* Classify with an exception of requests.post returned at once
Classify_RaiseFinal(att, resp) ==
    IF resp.status = 0
    THEN [continue |-> FALSE, ret |-> Return(None, None, Some(resp.msg))]
    ELSE IF resp.status = 404
    THEN [continue |-> FALSE,
          ret |-> Return(None, None, Some(ModelNotFound))]
    ELSE IF resp.status = 429
    THEN RetryOr(att, RateLimited)
    ELSE IF resp.status >= 400
    THEN RetryOr(att, <<"HTTP Error ", ToString(resp.status)>>)
    ELSE IF resp.body.isNone
    THEN RetryOr(att, resp.msg)
    ELSE LET p == ParseReply(resp.body.str)
         IN [continue |-> FALSE,
             ret |-> Return(Some(p.translation), p.detected_lang, None)]

\* lines 287-320: one iteration of the attempt loop, from the response
Classify(att, resp) ==
    IF resp.status = 0
    THEN RetryOr(att, resp.msg)                                \* except Exception
    ELSE IF resp.status = 404
    THEN [continue |-> FALSE,
          ret |-> Return(None, None, Some(ModelNotFound))]
    ELSE IF resp.status = 429
    THEN RetryOr(att, RateLimited)
    ELSE IF resp.status >= 400
    THEN RetryOr(att, <<"HTTP Error ", ToString(resp.status)>>)  \* HTTPError
    ELSE IF resp.body.isNone
    THEN RetryOr(att, resp.msg)                                \* except Exception
    ELSE LET p == ParseReply(resp.body.str)
         IN [continue |-> FALSE,
             ret |-> Return(Some(p.translation), p.detected_lang, None)]


-----------------------------------------------------------------------------
(* The translation run: pdf_to_images, then the loop over the images *)

SourceLanguages == {"Auto-detect", "Hindi"}

\* the form as filled in when "Start Translation" is pressed: the page
\* inputs keep 1 <= start_page <= end_page <= total_pages (lines 159-186)
PInit ==
    /\ pc = "idle"
    /\ total_pages \in 1..MaxPages
    /\ start_page \in 1..total_pages
    /\ end_page \in start_page..total_pages
    /\ source_lang \in SourceLanguages
    /\ docOpen = FALSE
    /\ images = <<>>
    /\ i = 0
    /\ attempt = 0
    /\ responses = <<>>
    /\ slept = <<>>
    /\ ret = NoReturn
    /\ history = <<>>
    /\ all_translations = <<>>
    /\ failed_pages = <<>>
    /\ detected_languages = <<>>
    /\ detected_language = None
    /\ final_translation = <<>>
    /\ waits = 0

tvars == <<attempt, responses, slept, ret>>
outvars == <<history, all_translations, failed_pages, detected_languages,
             detected_language, final_translation, waits>>
formvars == <<total_pages, start_page, end_page, source_lang>>

\* line 425 calling line 215: fitz.open(pdf_path) returns the handle, or
\* raises (unreadable document) and the handler ends
StartTranslation ==
    /\ pc = "idle"
    /\ \/ /\ docOpen' = TRUE
          /\ pc' = "rasterize"
       \/ /\ docOpen' = FALSE
          /\ pc' = "aborted"
    /\ images' = <<>>
    /\ UNCHANGED <<formvars, i, tvars, outvars, mvars, rvars, lvars>>

\* range(start_page - 1, end_page): the 0-based page the loop is at
NextPageIndex == (start_page - 1) + Len(images)

\* RasterizePage where a page that raises ends the loop with the images so far
RasterizePage_SkipCorrupt ==
    /\ pc = "rasterize"
    /\ NextPageIndex < end_page
    /\ \/ /\ images' = Append(images, NextPageIndex + 1)
          /\ pc' = pc
       \/ /\ images' = images
          /\ pc' = "loop"
    /\ UNCHANGED <<formvars, docOpen, i, tvars, outvars, mvars, rvars, lvars>>

\* lines 217-225: one iteration; doc[page_num] or get_pixmap may raise
\* (corrupt page), which leaves pdf_to_images and the handler at once
RasterizePage ==
    /\ pc = "rasterize"
    /\ NextPageIndex < end_page
    /\ \/ /\ images' = Append(images, NextPageIndex + 1)
          /\ pc' = pc
       \/ /\ images' = images
          /\ pc' = "aborted"
    /\ UNCHANGED <<formvars, docOpen, i, tvars, outvars, mvars, rvars, lvars>>

\* lines 227-228, then 428-430: doc.close(), return images
CloseDocument ==
    /\ pc = "rasterize"
    /\ NextPageIndex >= end_page
    /\ docOpen' = FALSE
    /\ pc' = "loop"
    /\ all_translations' = <<>>
    /\ failed_pages' = <<>>
    /\ detected_languages' = <<>>
    /\ waits' = 0
    /\ UNCHANGED <<formvars, images, i, tvars, history, detected_language,
                   final_translation, mvars, rvars, lvars>>

\* CallTranslate with the pause taken before the first page as well
CallTranslate_PauseFirst ==
    /\ pc = "loop"
    /\ i < Len(images)
    /\ waits' = waits + 1
    /\ attempt' = 0
    /\ responses' = <<>>
    /\ slept' = <<>>
    /\ IF retry_count = 0
       THEN ret' = Return(None, None, Some(AllFailed)) /\ pc' = "returned"
       ELSE ret' = NoReturn /\ pc' = "attempt"
    /\ UNCHANGED <<formvars, docOpen, images, i, history, all_translations,
                   failed_pages, detected_languages, detected_language,
                   final_translation, mvars, rvars, lvars>>

\* lines 432-452: the next image of the loop: the pause of lines 441-443
\* for every image but the first, then translate_image is entered
\* (line 322 is where an empty range(retry_count) would fall through to)
CallTranslate ==
    /\ pc = "loop"
    /\ i < Len(images)
    /\ waits' = IF i > 0 THEN waits + 1 ELSE waits
    /\ attempt' = 0
    /\ responses' = <<>>
    /\ slept' = <<>>
    /\ IF retry_count = 0
       THEN ret' = Return(None, None, Some(AllFailed)) /\ pc' = "returned"
       ELSE ret' = NoReturn /\ pc' = "attempt"
    /\ UNCHANGED <<formvars, docOpen, images, i, history, all_translations,
                   failed_pages, detected_languages, detected_language,
                   final_translation, mvars, rvars, lvars>>

\* the suspension of lines 283-286 before attempt att (0-based)
Backoff(att) == 10 * (att + 1)

\* Attempt with the suspension 10 * attempt
Attempt_BackoffFromTen ==
    /\ pc = "attempt"
    /\ slept' = IF attempt > 0 THEN Append(slept, 10 * attempt) ELSE slept
    /\ \E resp \in Responses :
          LET c == Classify(attempt, resp)
          IN /\ responses' = Append(responses, resp)
             /\ ret' = c.ret
             /\ attempt' = IF c.continue THEN attempt + 1 ELSE attempt
             /\ pc' = IF c.continue THEN "attempt" ELSE "returned"
    /\ UNCHANGED <<formvars, docOpen, images, i, outvars, mvars, rvars, lvars>>

\* lines 281-320: one attempt: the suspension when it is not the first,
\* then requests.post and what becomes of it
Attempt ==
    /\ pc = "attempt"
    /\ slept' = IF attempt > 0 THEN Append(slept, Backoff(attempt)) ELSE slept
    /\ \E resp \in Responses :
          LET c == Classify(attempt, resp)
          IN /\ responses' = Append(responses, resp)
             /\ ret' = c.ret
             /\ attempt' = IF c.continue THEN attempt + 1 ELSE attempt
             /\ pc' = IF c.continue THEN "attempt" ELSE "returned"
    /\ UNCHANGED <<formvars, docOpen, images, i, outvars, mvars, rvars, lvars>>

\* the response translate_image returned on (none: no attempt was made)
NoResponse == [status |-> 0, body |-> None, msg |-> <<>>]
LastResponse ==
    IF responses = <<>> THEN NoResponse ELSE responses[Len(responses)]

Placeholder(error) == <<"[Translation failed: ">> \o Format(error) \o <<"]">>

\* the entry f"\n--- Page {page_num} ---\n{text}"
Entry(page_num, text) == [page |-> page_num, text |-> text]

\* RecordOutcome with a failed page left out of the transcript
RecordOutcome_DropFailed ==
    /\ pc = "returned"
    /\ LET page_num == images[i + 1]
       IN /\ IF Truthy(ret.translation)
             THEN /\ all_translations' =
                        Append(all_translations,
                               Entry(page_num, ret.translation.str))
                  /\ detected_languages' =
                        IF Truthy(ret.detected_lang)
                        THEN Append(detected_languages, ret.detected_lang.str)
                        ELSE detected_languages
                  /\ failed_pages' = failed_pages
             ELSE /\ all_translations' = all_translations
                  /\ failed_pages' = Append(failed_pages, page_num)
                  /\ detected_languages' = detected_languages
          /\ history' = Append(history, [page |-> page_num,
                                         response |-> LastResponse,
                                         ret |-> ret])
    /\ i' = i + 1
    /\ attempt' = 0
    /\ responses' = <<>>
    /\ slept' = <<>>
    /\ pc' = "loop"
    /\ UNCHANGED <<formvars, docOpen, images, ret, detected_language,
                   final_translation, waits, mvars, rvars, lvars>>

\* lines 454-461: the page's entry, from what translate_image returned; the
\* locals of the translate_image call are gone
RecordOutcome ==
    /\ pc = "returned"
    /\ LET page_num == images[i + 1]
       IN /\ IF Truthy(ret.translation)
             THEN /\ all_translations' =
                        Append(all_translations,
                               Entry(page_num, ret.translation.str))
                  /\ detected_languages' =
                        IF Truthy(ret.detected_lang)
                        THEN Append(detected_languages, ret.detected_lang.str)
                        ELSE detected_languages
                  /\ failed_pages' = failed_pages
             ELSE /\ all_translations' =
                        Append(all_translations,
                               Entry(page_num, Placeholder(ret.error)))
                  /\ failed_pages' = Append(failed_pages, page_num)
                  /\ detected_languages' = detected_languages
          /\ history' = Append(history, [page |-> page_num,
                                         response |-> LastResponse,
                                         ret |-> ret])
    /\ i' = i + 1
    /\ attempt' = 0
    /\ responses' = <<>>
    /\ slept' = <<>>
    /\ pc' = "loop"
    /\ UNCHANGED <<formvars, docOpen, images, ret, detected_language,
                   final_translation, waits, mvars, rvars, lvars>>

\* detected_languages.count(l)
Count(seq, l) == Cardinality({k \in 1..Len(seq) : seq[k] = l})

\* max(set(detected_languages), key=detected_languages.count): max returns
\* the first element of highest count in the set's iteration order, and a
\* set of str iterates in hash order, which differs from process to process
MostCommon(seq) ==
    {l \in Range(seq) : \A m \in Range(seq) : Count(seq, m) <= Count(seq, l)}

\* line 455: f"\n--- Page {page_num} ---\n{translation}"
EntryText(entry) ==
    <<"\n", SENTINEL, " ", ToString(entry.page), " ", "---", "\n">>
        \o entry.text

RECURSIVE JoinLines(_)
\* line 464: "\n".join(all_translations)
JoinLines(entries) ==
    IF entries = <<>> THEN <<>>
    ELSE IF Len(entries) = 1 THEN EntryText(Head(entries))
    ELSE EntryText(Head(entries)) \o <<"\n">> \o JoinLines(Tail(entries))

\* lines 463-477: the loop is over; the transcript is joined and the
\* detected language is stored
Finish ==
    /\ pc = "loop"
    /\ i >= Len(images)
    /\ final_translation' = JoinLines(all_translations)
    /\ IF detected_languages # <<>>
       THEN \E most_common \in MostCommon(detected_languages) :
                detected_language' = Some(most_common)
       ELSE detected_language' = None
    /\ pc' = "done"
    /\ UNCHANGED <<formvars, docOpen, images, i, tvars, history,
                   all_translations, failed_pages, detected_languages,
                   waits, mvars, rvars, lvars>>


-----------------------------------------------------------------------------
(* The marker parse on its own: every reply up to MaxReplyLen tokens *)

ReplyTokens == {DETECTED, RBRACKET, " ", "\n", "Hindi", "x"}

AllReplies == UNION {[1..n -> ReplyTokens] : n \in 0..MaxReplyLen}

NotParsed == [done |-> FALSE, translation |-> <<>>, detected_lang |-> None]

\* lines 297-311: the content of a 2xx response, then its parse
ParseResponse ==
    /\ pc = "parse"
    /\ LET p == ParseReply(reply)
       IN parsed' = [done |-> TRUE, translation |-> p.translation,
                     detected_lang |-> p.detected_lang]
    /\ pc' = "parsed"
    /\ UNCHANGED <<formvars, docOpen, images, i, tvars, outvars, reply, rvars,
                   lvars>>

-----------------------------------------------------------------------------
(* txt_to_pdf_multilang: language and font resolution *)

UpperCase == <<"A", "B", "C", "D", "E", "F", "G", "H", "I", "J", "K", "L", "M",
               "N", "O", "P", "Q", "R", "S", "T", "U", "V", "W", "X", "Y", "Z">>
LowerCase == <<"a", "b", "c", "d", "e", "f", "g", "h", "i", "j", "k", "l", "m",
               "n", "o", "p", "q", "r", "s", "t", "u", "v", "w", "x", "y", "z">>

LowerChar(c) ==
    IF c \in Range(UpperCase)
    THEN LowerCase[CHOOSE k \in 1..Len(UpperCase) : UpperCase[k] = c]
    ELSE c

UpperChar(c) ==
    IF c \in Range(LowerCase)
    THEN UpperCase[CHOOSE k \in 1..Len(LowerCase) : LowerCase[k] = c]
    ELSE c

\* s.lower()
Lower(s) == [k \in 1..Len(s) |-> LowerChar(s[k])]

\* lines 28-74: LANGUAGE_FONTS, in the dict's (insertion) order
LANGUAGE_FONTS ==
    << [key |-> <<"h", "i", "n", "d", "i">>,
        default_font |-> "NotoSansDevanagari-Regular.ttf",
        font_name |-> "Devanagari", requires_special_font |-> TRUE],
       [key |-> <<"e", "n", "g", "l", "i", "s", "h">>,
        default_font |-> "Helvetica",
        font_name |-> "Helvetica", requires_special_font |-> FALSE],
       [key |-> <<"t", "a", "m", "i", "l">>,
        default_font |-> "NotoSansTamil-Regular.ttf",
        font_name |-> "Tamil", requires_special_font |-> TRUE],
       [key |-> <<"b", "e", "n", "g", "a", "l", "i">>,
        default_font |-> "NotoSansBengali-Regular.ttf",
        font_name |-> "Bengali", requires_special_font |-> TRUE],
       [key |-> <<"g", "u", "j", "a", "r", "a", "t", "i">>,
        default_font |-> "NotoSansGujarati-Regular.ttf",
        font_name |-> "Gujarati", requires_special_font |-> TRUE],
       [key |-> <<"t", "e", "l", "u", "g", "u">>,
        default_font |-> "NotoSansTelugu-Regular.ttf",
        font_name |-> "Telugu", requires_special_font |-> TRUE],
       [key |-> <<"k", "a", "n", "n", "a", "d", "a">>,
        default_font |-> "NotoSansKannada-Regular.ttf",
        font_name |-> "Kannada", requires_special_font |-> TRUE],
       [key |-> <<"m", "a", "l", "a", "y", "a", "l", "a", "m">>,
        default_font |-> "NotoSansMalayalam-Regular.ttf",
        font_name |-> "Malayalam", requires_special_font |-> TRUE],
       [key |-> <<"p", "u", "n", "j", "a", "b", "i">>,
        default_font |-> "NotoSansGurmukhi-Regular.ttf",
        font_name |-> "Punjabi", requires_special_font |-> TRUE] >>

\* LANGUAGE_FONTS.keys()
LanguageKeys == [k \in 1..Len(LANGUAGE_FONTS) |-> LANGUAGE_FONTS[k].key]

\* target_language in LANGUAGE_FONTS
Supported(lang) == lang \in Range(LanguageKeys)

\* LANGUAGE_FONTS[target_language]
LangConfig(lang) ==
    LANGUAGE_FONTS[CHOOSE k \in 1..Len(LANGUAGE_FONTS) :
                       LANGUAGE_FONTS[k].key = lang]

RECURSIVE Join(_, _)
\* sep.join(strs)
Join(strs, sep) ==
    IF strs = <<>> THEN <<>>
    ELSE IF Len(strs) = 1 THEN strs[1]
    ELSE strs[1] \o sep \o Join(Tail(strs), sep)

\* line 92: the error for a language that is not in the registry
UnsupportedError(lang) ==
    <<"Language '">> \o lang \o <<"' not supported. Supported languages: ">>
        \o Join(LanguageKeys, <<",", " ">>)


\* lines 77-84: FONT_SEARCH_PATHS, in order
FONT_SEARCH_PATHS ==
    << "script_dir", "script_dir/fonts", "script_dir/../fonts",
       "/usr/share/fonts", "/System/Library/Fonts", "C:\\Windows\\Fonts" >>

\* What a search path holds when the loop comes to it: "missing" (no such
\* directory), "absent" (no file of that name in it or below it), "direct"
\* (the file lies in it), "nested" (the file lies only in a directory
\* below it).  script_dir itself always exists.
DirStates(n) ==
    IF n = 1 THEN {"absent", "direct", "nested"}
    ELSE {"missing", "absent", "direct", "nested"}

\* 'fonts' in search_path.lower(): so for every path but script_dir, whose
\* name is the installation's
FontsInName(n) == IF n = 1 THEN BOOLEAN ELSE {TRUE}

\* the font_path argument: not given, or a path that is absolute or not and
\* that names an existing file or not (a relative one: below script_dir)
NoFontPath == [given |-> FALSE, absolute |-> FALSE, exists |-> FALSE]
FontPaths ==
    {NoFontPath}
    \cup [given : {TRUE}, absolute : BOOLEAN, exists : BOOLEAN]

NoResult == [returned |-> FALSE, pdf_bytes |-> None, error |-> None]
ErrorResult(error) ==
    [returned |-> TRUE, pdf_bytes |-> None, error |-> Some(error)]

\* the names a caller may pass: the registry's, and some that are not in it
LanguageNames ==
    Range(LanguageKeys)
    \cup { <<>>,
           <<"f", "r", "e", "n", "c", "h">>,
           <<"h", "i", "n", "d">>,
           <<"h", "i", " ", "n", "d", "i">> }

\* name with its first k letters in upper case
UpperPrefix(name, k) ==
    [j \in 1..Len(name) |-> IF j <= k THEN UpperChar(name[j]) ELSE name[j]]

Spaces(n) == [j \in 1..n |-> " "]

\* every spelling: any prefix in upper case, up to MaxPad blanks around it
TargetLanguages ==
    UNION { { Spaces(l) \o UpperPrefix(name, k) \o Spaces(r) :
                k \in 0..Len(name), l \in 0..MaxPad, r \in 0..MaxPad } :
            name \in LanguageNames }

RInit ==
    /\ pc = "resolve"
    /\ target_language \in TargetLanguages
    /\ font_path \in FontPaths
    /\ found_font = None
    /\ searched = <<>>
    /\ registered = {}
    /\ canvasOpen = FALSE
    /\ result = NoResult

\* ResolveLanguage without the strip()
ResolveLanguage_NoStrip ==
    /\ pc = "resolve"
    /\ LET lang == Lower(target_language)
       IN /\ target_language' = lang
          /\ IF ~Supported(lang)
             THEN /\ result' = ErrorResult(UnsupportedError(lang))
                  /\ pc' = "returned"
             ELSE /\ result' = result
                  /\ pc' = IF LangConfig(lang).requires_special_font
                           THEN "font_path" ELSE "canvas"
    /\ UNCHANGED <<formvars, docOpen, images, i, tvars, outvars, mvars, lvars,
                   font_path, found_font, searched, registered, canvasOpen>>

\* lines 86-94: normalise the language, look it up
ResolveLanguage ==
    /\ pc = "resolve"
    /\ LET lang == Strip(Lower(target_language))
       IN /\ target_language' = lang
          /\ IF ~Supported(lang)
             THEN /\ result' = ErrorResult(UnsupportedError(lang))
                  /\ pc' = "returned"
             ELSE /\ result' = result
                  /\ pc' = IF LangConfig(lang).requires_special_font
                           THEN "font_path" ELSE "canvas"
    /\ UNCHANGED <<formvars, docOpen, images, i, tvars, outvars, mvars, lvars,
                   font_path, found_font, searched, registered, canvasOpen>>

\* lines 99-109: the explicit font path, used if the file exists
UseFontPath ==
    /\ pc = "font_path"
    /\ found_font' =
          IF font_path.given /\ font_path.exists
          THEN IF font_path.absolute
               THEN Some(<<"font_path">>)
               ELSE Some(<<"script_dir", "/", "font_path">>)
          ELSE None
    /\ pc' = IF font_path.given /\ font_path.exists THEN "register" ELSE "search"
    /\ UNCHANGED <<formvars, docOpen, images, i, tvars, outvars, mvars, lvars,
                   target_language, font_path, searched, registered,
                   canvasOpen, result>>

\* a directory below script_dir cannot hold what a walk of script_dir missed
Consistent(n, st) ==
    (n = 2 /\ searched[1].state = "absent") => st \in {"missing", "absent"}

\* SearchPath without the breaks: every path is examined, the last match
\* stands
SearchPath_LastWins ==
    /\ pc = "search"
    /\ Len(searched) < Len(FONT_SEARCH_PATHS)
    /\ LET n == Len(searched) + 1
           font_filename == LangConfig(target_language).default_font
       IN \E st \in DirStates(n), rec \in FontsInName(n) :
            /\ Consistent(n, st)
            /\ searched' = Append(searched,
                                  [path |-> FONT_SEARCH_PATHS[n],
                                   state |-> st, fonts |-> rec])
            /\ found_font' =
                  IF st = "direct"
                  THEN Some(<<FONT_SEARCH_PATHS[n], "/", font_filename>>)
                  ELSE IF st = "nested" /\ rec
                  THEN Some(<<FONT_SEARCH_PATHS[n], "/", "*", "/",
                              font_filename>>)
                  ELSE found_font
            /\ pc' = IF n = Len(FONT_SEARCH_PATHS) /\ found_font' # None
                     THEN "register" ELSE "search"
    /\ UNCHANGED <<formvars, docOpen, images, i, tvars, outvars, mvars, lvars,
                   target_language, font_path, registered, canvasOpen, result>>

\* lines 116-133: one search path of the loop
SearchPath ==
    /\ pc = "search"
    /\ Len(searched) < Len(FONT_SEARCH_PATHS)
    /\ LET n == Len(searched) + 1
           font_filename == LangConfig(target_language).default_font
       IN \E st \in DirStates(n), rec \in FontsInName(n) :
            /\ Consistent(n, st)
            /\ searched' = Append(searched,
                                  [path |-> FONT_SEARCH_PATHS[n],
                                   state |-> st, fonts |-> rec])
            /\ found_font' =
                  IF st = "direct"
                  THEN Some(<<FONT_SEARCH_PATHS[n], "/", font_filename>>)
                  ELSE IF st = "nested" /\ rec
                  THEN Some(<<FONT_SEARCH_PATHS[n], "/", "*", "/",
                              font_filename>>)
                  ELSE None
            /\ pc' = IF st = "direct" \/ (st = "nested" /\ rec)
                     THEN "register" ELSE "search"
    /\ UNCHANGED <<formvars, docOpen, images, i, tvars, outvars, mvars, lvars,
                   target_language, font_path, registered, canvasOpen, result>>

\* lines 137-145: the message names the file and two of the directories
FontNotFoundError(lang) ==
    <<"Font file '", LangConfig(lang).default_font, "' not found.",
      "Place the font file in one of these locations:",
      "script_dir", "script_dir/fonts">>

\* FontNotFound that goes on to draw with whatever font is current
FontNotFound_Fallback ==
    /\ pc = "search"
    /\ Len(searched) = Len(FONT_SEARCH_PATHS)
    /\ result' = result
    /\ pc' = "canvas"
    /\ UNCHANGED <<formvars, docOpen, images, i, tvars, outvars, mvars, lvars,
                   target_language, font_path, found_font, searched,
                   registered, canvasOpen>>

\* lines 135-146: the loop ended with no font
FontNotFound ==
    /\ pc = "search"
    /\ Len(searched) = Len(FONT_SEARCH_PATHS)
    /\ result' = ErrorResult(FontNotFoundError(target_language))
    /\ pc' = "returned"
    /\ UNCHANGED <<formvars, docOpen, images, i, tvars, outvars, mvars, lvars,
                   target_language, font_path, found_font, searched,
                   registered, canvasOpen>>

\* lines 148-152: registerFont(TTFont(font_name, found_font)), which raises
\* on a file that is no usable font
RegisterFont ==
    /\ pc = "register"
    /\ \/ /\ registered' =
                registered \cup {LangConfig(target_language).font_name}
          /\ result' = result
          /\ pc' = "canvas"
       \/ /\ registered' = registered
          /\ result' = ErrorResult(<<"Error registering font '">>
                                       \o found_font.str \o <<"'">>)
          /\ pc' = "returned"
    /\ UNCHANGED <<formvars, docOpen, images, i, tvars, outvars, mvars, lvars,
                   target_language, font_path, found_font, searched,
                   canvasOpen>>

\* lines 154-161: the buffer and the canvas
CreateCanvas ==
    /\ pc = "canvas"
    /\ canvasOpen' = TRUE
    /\ pc' = "layout"
    /\ UNCHANGED <<formvars, docOpen, images, i, tvars, outvars, mvars, lvars,
                   target_language, font_path, found_font, searched,
                   registered, result>>

-----------------------------------------------------------------------------
(* txt_to_pdf_multilang: the layout of the text on the canvas              *)
(*                                                                         *)
(* Lengths are whole points.  A4 is 595.2756 x 841.8898 points; the cursor *)
(* starts at height - 50 and moves by 16 or 8, so it is compared with 50   *)
(* after a whole number of 8-point steps and the fraction of the height    *)
(* never decides a comparison.  The font's metrics are an input: every     *)
(* word token measures word_width, a blank measures SpaceWidth.            *)

\* line 157: width, height = A4
PageWidth == 595
PageHeight == 841

\* lines 173, 179, 199: the top and bottom margins
Margin == 50

\* lines 197, 207: the height of a drawn row; line 209: of a blank line
RowHeight == 16
BlankHeight == 8

\* line 188: max_width = width - 100
max_width == PageWidth - 100

\* line 195: stringWidth of a blank in the font
SpaceWidth == 3

\* a word that is wider than the row in every font, and its width
WideWord == "wide"
WideWidth == 500

\* line 195: c.stringWidth(s, font_name, font_size)
StringWidth(s, w) ==
    LET blanks == Cardinality({k \in 1..Len(s) : s[k] = " "})
        wides == Cardinality({k \in 1..Len(s) : s[k] = WideWord})
    IN blanks * SpaceWidth + wides * WideWidth
           + (Len(s) - blanks - wides) * w

\* index of the first whitespace token of s, Len(s) + 1 when there is none
FirstBlank(s) ==
    IF \E k \in 1..Len(s) : s[k] \in Whitespace
    THEN CHOOSE k \in 1..Len(s) :
             s[k] \in Whitespace /\ \A j \in 1..(k - 1) : s[j] \notin Whitespace
    ELSE Len(s) + 1

RECURSIVE SplitWords(_)
\* line 189: line.split(), the maximal runs without whitespace
SplitWords(s) ==
    LET t == LStrip(s)
        k == FirstBlank(t)
    IN IF t = <<>> THEN <<>>
       ELSE <<SubSeq(t, 1, k - 1)>> \o SplitWords(SubSeq(t, k, Len(t)))

\* lines 163-167: the sections of the text
Sections(text) ==
    IF SENTINEL \in Range(text) THEN Split(text, SENTINEL) ELSE <<text>>

\* line 173: the cursor at the top of a page
Top == PageHeight - Margin

\* n lines of m words each, the words numbered 1, 2, ... in reading order
Body(n, m) ==
    [p \in 1..(2 * n * m - 1) |->
        LET q == (p - 1) % (2 * m)
            l == (p - 1) \div (2 * m)
        IN IF q = 2 * m - 1 THEN "\n"
           ELSE IF q % 2 = 1 THEN " "
           ELSE ToString(l * m + q \div 2 + 1)]

\* the heading the transcript puts before a page's text
Heading(n) == <<"\n", SENTINEL, " ", ToString(n), " ", "---", "\n">>

\* the end of a line, then b - 1 blank lines, one of them a lone blank
Blanks(b) == [j \in 1..b |-> IF j = 2 /\ b > 2 THEN " " ELSE "\n"]

\* a short word, a word wider than the row, a short word
LastLine == <<"x", " ", WideWord, " ", "y">>

\* a body, a run of blank lines, a last line
BlankRunTexts ==
    { Body(n, m) \o Blanks(b) \o <<"\n">> \o LastLine :
        n \in {MaxLines}, m \in {MaxWords}, b \in 1..MaxBlanks }

\* texts with sections that hold whitespace only
BlankSectionTexts ==
    { <<" ", "\n">> }
    \cup { <<SENTINEL, " ", "\n", SENTINEL>> \o Body(n, MaxWords)
               \o <<"\n", SENTINEL, "\n", " ", SENTINEL>> \o Body(MaxWords, n) :
           n \in 1..MaxLines }

\* the texts laid out: a bare body, a transcript of one page, of two pages;
\* texts with runs of blank lines; texts with blank sections
LayoutTexts ==
    UNION { { Body(n, m),
              Heading(1) \o Body(n, m),
              Heading(1) \o Body(n, m) \o Heading(2) \o Body(m, n) } :
            n \in 1..MaxLines, m \in 1..MaxWords }
    \cup BlankRunTexts
    \cup BlankSectionTexts

\* the width of a word: 4, 3, 2, 1 words fit in a row, or none does
WordWidths == {100, 150, 200, 300, 500}

\* the state after lines 154-161 for an English text
LInit ==
    /\ pc = "layout"
    /\ target_language = <<"e", "n", "g", "l", "i", "s", "h">>
    /\ font_path = NoFontPath
    /\ found_font = None
    /\ searched = <<>>
    /\ registered = {}
    /\ canvasOpen = TRUE
    /\ result = NoResult
    /\ text_content \in LayoutTexts
    /\ word_width \in WordWidths
    /\ pages_content = <<>>
    /\ section = 0
    /\ lines = <<>>
    /\ line_no = 0
    /\ words = <<>>
    /\ current_line = <<>>
    /\ y = 0
    /\ page_rows = <<>>
    /\ pages = <<>>

lfixed == <<formvars, docOpen, images, i, tvars, outvars, mvars,
            target_language, font_path, found_font, searched, registered,
            canvasOpen, text_content, word_width>>

\* c.drawString(50, y, current_line)
Row == [section |-> section, line |-> line_no, y |-> y, text |-> current_line]

\* c.showPage()
Page == [section |-> section, rows |-> page_rows]

\* lines 163-167
SplitSections ==
    /\ pc = "layout"
    /\ pages_content' = Sections(text_content)
    /\ pc' = "sections"
    /\ UNCHANGED <<lfixed, result, section, lines, line_no, words,
                   current_line, y, page_rows, pages>>

\* lines 169-171: a blank section is passed over
SkipSection ==
    /\ pc = "sections"
    /\ pages_content # <<>>
    /\ Strip(Head(pages_content)) = <<>>
    /\ pages_content' = Tail(pages_content)
    /\ section' = section + 1
    /\ UNCHANGED <<pc, lfixed, result, lines, line_no, words, current_line, y,
                   page_rows, pages>>

\* lines 169-176: the cursor goes to the top, the section is cut in lines
StartSection ==
    /\ pc = "sections"
    /\ pages_content # <<>>
    /\ Strip(Head(pages_content)) # <<>>
    /\ pages_content' = Tail(pages_content)
    /\ section' = section + 1
    /\ y' = Top
    /\ lines' = Split(Strip(Head(pages_content)), "\n")
    /\ line_no' = 0
    /\ pc' = "lines"
    /\ UNCHANGED <<lfixed, result, words, current_line, page_rows, pages>>

\* NextLine without the page break of lines 179-181
NextLine_NoBreak ==
    /\ pc = "lines"
    /\ lines # <<>>
    /\ lines' = Tail(lines)
    /\ line_no' = line_no + 1
    /\ IF Strip(Head(lines)) # <<>>
       THEN /\ words' = SplitWords(Head(lines))
            /\ current_line' = <<>>
            /\ y' = y
            /\ pc' = "words"
       ELSE /\ y' = y - BlankHeight
            /\ UNCHANGED <<pc, words, current_line>>
    /\ UNCHANGED <<lfixed, result, pages_content, section, page_rows, pages>>

\* lines 178-190 and 208-209: the page break at the bottom, then the line
\* is cut in words, or a blank line moves the cursor
NextLine ==
    /\ pc = "lines"
    /\ lines # <<>>
    /\ lines' = Tail(lines)
    /\ line_no' = line_no + 1
    /\ LET break == y < Margin
           y1 == IF break THEN Top ELSE y
       IN /\ pages' = IF break THEN Append(pages, Page) ELSE pages
          /\ page_rows' = IF break THEN <<>> ELSE page_rows
          /\ IF Strip(Head(lines)) # <<>>
             THEN /\ words' = SplitWords(Head(lines))
                  /\ current_line' = <<>>
                  /\ y' = y1
                  /\ pc' = "words"
             ELSE /\ y' = y1 - BlankHeight
                  /\ UNCHANGED <<pc, words, current_line>>
    /\ UNCHANGED <<lfixed, result, pages_content, section>>

\* WrapWord that draws the full row and starts the next one empty
WrapWord_DropWord ==
    /\ pc = "words"
    /\ words # <<>>
    /\ words' = Tail(words)
    /\ LET word == Head(words)
           test_line == IF current_line # <<>>
                        THEN current_line \o <<" ">> \o word ELSE word
       IN IF StringWidth(test_line, word_width) > max_width
             /\ current_line # <<>>
          THEN /\ current_line' = <<>>
               /\ IF y - RowHeight < Margin
                  THEN /\ pages' = Append(pages,
                                       [section |-> section,
                                        rows |-> Append(page_rows, Row)])
                       /\ page_rows' = <<>>
                       /\ y' = Top
                  ELSE /\ pages' = pages
                       /\ page_rows' = Append(page_rows, Row)
                       /\ y' = y - RowHeight
          ELSE /\ current_line' = test_line
               /\ UNCHANGED <<y, page_rows, pages>>
    /\ UNCHANGED <<pc, lfixed, result, pages_content, section, lines, line_no>>

\* WrapWord without the page break of lines 199-201
WrapWord_NoBreak ==
    /\ pc = "words"
    /\ words # <<>>
    /\ words' = Tail(words)
    /\ LET word == Head(words)
           test_line == IF current_line # <<>>
                        THEN current_line \o <<" ">> \o word ELSE word
       IN IF StringWidth(test_line, word_width) > max_width
             /\ current_line # <<>>
          THEN /\ current_line' = word
               /\ pages' = pages
               /\ page_rows' = Append(page_rows, Row)
               /\ y' = y - RowHeight
          ELSE /\ current_line' = test_line
               /\ UNCHANGED <<y, page_rows, pages>>
    /\ UNCHANGED <<pc, lfixed, result, pages_content, section, lines, line_no>>

\* WrapWord that draws the candidate with the word that did not fit
WrapWord_DrawOverflow ==
    /\ pc = "words"
    /\ words # <<>>
    /\ words' = Tail(words)
    /\ LET word == Head(words)
           test_line == IF current_line # <<>>
                        THEN current_line \o <<" ">> \o word ELSE word
           row == [section |-> section, line |-> line_no, y |-> y,
                   text |-> test_line]
       IN IF StringWidth(test_line, word_width) > max_width
             /\ current_line # <<>>
          THEN /\ current_line' = <<>>
               /\ IF y - RowHeight < Margin
                  THEN /\ pages' = Append(pages,
                                       [section |-> section,
                                        rows |-> Append(page_rows, row)])
                       /\ page_rows' = <<>>
                       /\ y' = Top
                  ELSE /\ pages' = pages
                       /\ page_rows' = Append(page_rows, row)
                       /\ y' = y - RowHeight
          ELSE /\ current_line' = test_line
               /\ UNCHANGED <<y, page_rows, pages>>
    /\ UNCHANGED <<pc, lfixed, result, pages_content, section, lines, line_no>>

\* lines 192-203: one word of the wrap loop
WrapWord ==
    /\ pc = "words"
    /\ words # <<>>
    /\ words' = Tail(words)
    /\ LET word == Head(words)
           test_line == IF current_line # <<>>
                        THEN current_line \o <<" ">> \o word ELSE word
       IN IF StringWidth(test_line, word_width) > max_width
             /\ current_line # <<>>
          THEN /\ current_line' = word
               /\ IF y - RowHeight < Margin
                  THEN /\ pages' = Append(pages,
                                       [section |-> section,
                                        rows |-> Append(page_rows, Row)])
                       /\ page_rows' = <<>>
                       /\ y' = Top
                  ELSE /\ pages' = pages
                       /\ page_rows' = Append(page_rows, Row)
                       /\ y' = y - RowHeight
          ELSE /\ current_line' = test_line
               /\ UNCHANGED <<y, page_rows, pages>>
    /\ UNCHANGED <<pc, lfixed, result, pages_content, section, lines, line_no>>

\* lines 205-207: after the last word the candidate row is drawn
FlushLine ==
    /\ pc = "words"
    /\ words = <<>>
    /\ IF current_line # <<>>
       THEN /\ page_rows' = Append(page_rows, Row)
            /\ y' = y - RowHeight
       ELSE UNCHANGED <<page_rows, y>>
    /\ current_line' = <<>>
    /\ pc' = "lines"
    /\ UNCHANGED <<lfixed, result, pages_content, section, lines, line_no,
                   words, pages>>

\* EndSection without the page break: the next section goes on below
EndSection_NoBreak ==
    /\ pc = "lines"
    /\ lines = <<>>
    /\ pc' = "sections"
    /\ UNCHANGED <<lfixed, result, pages_content, section, lines, line_no,
                   words, current_line, y, page_rows, pages>>

\* line 211: the page break that ends a section
EndSection ==
    /\ pc = "lines"
    /\ lines = <<>>
    /\ pages' = Append(pages, Page)
    /\ page_rows' = <<>>
    /\ pc' = "sections"
    /\ UNCHANGED <<lfixed, result, pages_content, section, lines, line_no,
                   words, current_line, y>>

\* lines 213-217: the document is saved and returned
SavePdf ==
    /\ pc = "sections"
    /\ pages_content = <<>>
    /\ result' = [returned |-> TRUE, pdf_bytes |-> Some(<<"%PDF">>),
                  error |-> None]
    /\ pc' = "returned"
    /\ UNCHANGED <<lfixed, pages_content, section, lines, line_no, words,
                   current_line, y, page_rows, pages>>

-----------------------------------------------------------------------------
(* Specifications *)

\* the variables of the translation run, at rest
PIdle ==
    /\ total_pages = 1
    /\ start_page = 1
    /\ end_page = 1
    /\ source_lang = "Auto-detect"
    /\ docOpen = FALSE
    /\ images = <<>>
    /\ i = 0
    /\ attempt = 0
    /\ responses = <<>>
    /\ slept = <<>>
    /\ ret = NoReturn
    /\ history = <<>>
    /\ all_translations = <<>>
    /\ failed_pages = <<>>
    /\ detected_languages = <<>>
    /\ detected_language = None
    /\ final_translation = <<>>
    /\ waits = 0

MIdle ==
    /\ reply = <<>>
    /\ parsed = NotParsed

RIdle ==
    /\ target_language = <<>>
    /\ font_path = NoFontPath
    /\ found_font = None
    /\ searched = <<>>
    /\ registered = {}
    /\ canvasOpen = FALSE
    /\ result = NoResult

LIdle ==
    /\ text_content = <<>>
    /\ word_width = 0
    /\ pages_content = <<>>
    /\ section = 0
    /\ lines = <<>>
    /\ line_no = 0
    /\ words = <<>>
    /\ current_line = <<>>
    /\ y = 0
    /\ page_rows = <<>>
    /\ pages = <<>>

\* a translation run
Init == PInit /\ MIdle /\ RIdle /\ LIdle

Next ==
    \/ StartTranslation
    \/ RasterizePage
    \/ CloseDocument
    \/ CallTranslate
    \/ Attempt
    \/ RecordOutcome
    \/ Finish

Spec == Init /\ [][Next]_vars

\* the parse of one reply
MInit ==
    /\ pc = "parse"
    /\ reply \in AllReplies
    /\ parsed = NotParsed
    /\ PIdle
    /\ RIdle
    /\ LIdle

MNext == ParseResponse

SpecParse == MInit /\ [][MNext]_vars

\* one call of txt_to_pdf_multilang
RenderInit == RInit /\ PIdle /\ MIdle /\ LIdle

RenderNext ==
    \/ ResolveLanguage
    \/ UseFontPath
    \/ SearchPath
    \/ FontNotFound
    \/ RegisterFont
    \/ CreateCanvas

SpecRender == RenderInit /\ [][RenderNext]_vars

\* the layout of one text
LayoutInit == LInit /\ PIdle /\ MIdle

LayoutNext ==
    \/ SplitSections
    \/ SkipSection
    \/ StartSection
    \/ NextLine
    \/ WrapWord
    \/ FlushLine
    \/ EndSection
    \/ SavePdf

SpecLayout == LayoutInit /\ [][LayoutNext]_vars

\* a translation run that is not suspended for ever: the handler is one
\* thread that runs each of its steps to the end (the sleeps are finite,
\* requests.post returns or raises within its timeout of 120 s)
SpecLive == Init /\ [][Next]_vars /\ WF_vars(Next)


-----------------------------------------------------------------------------
(* Properties of the translation run *)

PastRasterization == pc \in {"loop", "attempt", "returned", "done"}

\* C1: once rasterization is over, the transcript holds one entry per page
\* the loop has finished, tagged start_page, start_page + 1, ... in order,
\* and at the end of the run it holds end_page - start_page + 1 entries,
\* whatever succeeded or failed.
PageCountInvariant ==
    PastRasterization =>
        /\ Len(all_translations) = i
        /\ \A k \in 1..Len(all_translations) :
               all_translations[k].page = start_page + k - 1
        /\ pc = "done" =>
               Len(all_translations) = end_page - start_page + 1

\* a finished run over pages 2..3 in which one page failed and one did not
PageCountWitness ==
    /\ pc = "done"
    /\ start_page = 2
    /\ end_page = 3
    /\ Len(all_translations) = 2
    /\ Len(failed_pages) = 1

\* the call for the k-th page of the run ended in Failure / in Success
CallFailed(k) == ~history[k].ret.error.isNone
CallSucceeded(k) ==
    history[k].response.status = 200 /\ ~history[k].response.body.isNone

\* C2: in a finished run where the call for one page failed on every attempt
\* and the calls for all other pages succeeded, the failed set is that page
\* alone, its entry is the placeholder with the reason, and every other
\* entry holds the text its call returned.
PartialFailureIsolation ==
    pc = "done" =>
        \A k \in 1..Len(history) :
            (CallFailed(k)
             /\ \A j \in 1..Len(history) : j # k => CallSucceeded(j))
            => /\ failed_pages = <<history[k].page>>
               /\ all_translations[k].text = Placeholder(history[k].ret.error)
               /\ \A j \in 1..Len(history) :
                      j # k => all_translations[j].text
                                   = history[j].ret.translation.str

AllStatus(rs, status) == \A k \in 1..Len(rs) : rs[k].status = status

\* C3: a 404 is the last response of its call, which then returns the
\* model-not-found Failure (so a first-attempt 404 is the only call made);
\* a call that got a 429 on every attempt returns after exactly retry_count
\* requests, with the rate-limit Failure.
RetryTerminalClassification ==
    /\ \A k \in 1..Len(responses) :
           responses[k].status = 404 =>
               /\ k = Len(responses)
               /\ pc = "returned"
               /\ ret = Return(None, None, Some(ModelNotFound))
    /\ (pc = "returned" /\ AllStatus(responses, 429)) =>
           /\ Len(responses) = retry_count
           /\ ret = Return(None, None, Some(RateLimited))
    /\ (pc = "attempt" /\ AllStatus(responses, 429)) =>
           Len(responses) < retry_count

\* the first page's call ended on a first-attempt 404, and the call in
\* progress has returned after 429s only
RetryTerminalWitness ==
    /\ pc = "returned"
    /\ Len(responses) = retry_count
    /\ AllStatus(responses, 429)
    /\ Len(history) = 1
    /\ history[1].response.status = 404
    /\ history[1].ret.error = Some(ModelNotFound)

\* C4: a page is in the failed set, or carries the placeholder, only if its
\* call ended in Failure; a page whose call got a 2xx response with a usable
\* body is a success carrying the text of the reply and is not in the failed
\* set, whatever the reply text (an empty one included).
FailedOnlyOnFailure ==
    \A k \in 1..Len(history) :
        /\ (history[k].page \in Range(failed_pages)
            \/ all_translations[k].text = Placeholder(history[k].ret.error))
           => CallFailed(k)
        /\ CallSucceeded(k) =>
               /\ history[k].page \notin Range(failed_pages)
               /\ all_translations[k].text = history[k].ret.translation.str

\* index of the first occurrence of l in seq
FirstSeen(seq, l) == IndexOf(seq, l)

\* C7: the detected language of a finished run is the language of highest
\* count among the detections, and among those of highest count the one
\* detected first in page order.
PluralityFirstSeen ==
    (pc = "done" /\ detected_languages # <<>>) =>
        /\ ~detected_language.isNone
        /\ LET l == detected_language.str
           IN /\ l \in Range(detected_languages)
              /\ \A m \in Range(detected_languages) :
                     \/ Count(detected_languages, m)
                            < Count(detected_languages, l)
                     \/ /\ Count(detected_languages, m)
                               = Count(detected_languages, l)
                        /\ FirstSeen(detected_languages, l)
                               <= FirstSeen(detected_languages, m)

\* C8: wherever pdf_to_images has been left, normally or by a raise, the
\* document handle it opened is closed.
HandleClosedOnEveryExit ==
    pc \notin {"idle", "rasterize"} => ~docOpen

RemoteCallMade ==
    responses # <<>> \/ history # <<>> \/ pc \in {"attempt", "returned"}

\* C9: a remote call is made only once every page of the range has been
\* rasterized; a run that a document-level failure ended has made none.
NoRemoteCallBeforeRasterized ==
    /\ RemoteCallMade =>
           /\ Len(images) = end_page - start_page + 1
           /\ \A k \in 1..Len(images) : images[k] = start_page + k - 1
    /\ pc = "aborted" => ~RemoteCallMade

\* a run that ended on a page that could not be rasterized, after another
\* page had been
AbortedRunWitness ==
    /\ pc = "aborted"
    /\ docOpen
    /\ Len(images) = 1
    /\ end_page - start_page + 1 >= 2
    /\ history = <<>>

-----------------------------------------------------------------------------
(* Properties of the marker parse *)

\* C5: a reply that begins with the marker "[DETECTED:" name "]" parses to
\* the trimmed name and the trimmed remainder after the marker; a reply
\* with no marker parses to no detected language and the reply unchanged.
MarkerParsing ==
    parsed.done =>
        /\ DETECTED \notin Range(reply) =>
               /\ parsed.detected_lang = None
               /\ parsed.translation = reply
        /\ \A n \in 2..Len(reply) :
               (/\ reply[1] = DETECTED
                /\ reply[n] = RBRACKET
                /\ \A k \in 2..(n - 1) : reply[k] \notin {DETECTED, RBRACKET})
               => /\ parsed.detected_lang = Some(Strip(SubSeq(reply, 2, n - 1)))
                  /\ parsed.translation =
                         Strip(SubSeq(reply, n + 1, Len(reply)))

\* the parse of "[DETECTED: Hindi]x"
MarkerParsingWitness ==
    /\ parsed.done
    /\ reply = <<DETECTED, " ", "Hindi", RBRACKET, "x">>
    /\ parsed.detected_lang = Some(<<"Hindi">>)
    /\ parsed.translation = <<"x">>

\* C6: a reply that holds "[DETECTED:" and no closing bracket parses to the
\* reply unchanged and to no detected language (none that the loop's
\* `if detected_lang:` would count).
MalformedMarkerFallback ==
    (parsed.done /\ DETECTED \in Range(reply) /\ RBRACKET \notin Range(reply))
    => /\ parsed.translation = reply
       /\ ~Truthy(parsed.detected_lang)

-----------------------------------------------------------------------------
(* Properties of the renderer *)

\* s holds sub as a contiguous part
Contains(s, sub) ==
    \E k \in 0..(Len(s) - Len(sub)) : SubSeq(s, k + 1, k + Len(sub)) = sub

\* name is key in some mix of cases, with blanks before and after it
Spells(name, key) ==
    \E a \in 0..Len(name) :
        /\ a + Len(key) <= Len(name)
        /\ \A j \in 1..a : name[j] \in Whitespace
        /\ \A j \in (a + Len(key) + 1)..Len(name) : name[j] \in Whitespace
        /\ \A j \in 1..Len(key) :
               name[a + j] = key[j] \/ name[a + j] = UpperChar(key[j])

\* the part of the error after "Supported languages: "
SupportedList(error) ==
    Split1(error, "' not supported. Supported languages: ")[2]

\* C10: the step that resolves target_language takes a name that spells a
\* registry key (in any case, blanks around it) to that key and goes on;
\* for any other name it returns no bytes and an error that lists every
\* registry key, with no font searched or registered and no canvas.
UnsupportedLanguageStep ==
    [][pc = "resolve" =>
          IF \E key \in Range(LanguageKeys) : Spells(target_language, key)
          THEN /\ Supported(target_language')
               /\ Spells(target_language, target_language')
               /\ pc' \in {"font_path", "canvas"}
               /\ ~result'.returned
          ELSE /\ pc' = "returned"
               /\ result'.returned
               /\ result'.pdf_bytes = None
               /\ ~result'.error.isNone
               /\ \A key \in Range(LanguageKeys) :
                      Contains(SupportedList(result'.error.str), key)
               /\ searched' = <<>>
               /\ found_font' = None
               /\ registered' = {}
               /\ ~canvasOpen']_vars

\* "french" was asked for: the unsupported-language error, nothing else
UnsupportedLanguageWitness ==
    /\ pc = "returned"
    /\ result = ErrorResult(UnsupportedError(<<"f", "r", "e", "n", "c", "h">>))
    /\ searched = <<>>
    /\ registered = {}
    /\ ~canvasOpen


\* a search path held a file of the wanted name where the loop looks for it
Matched(entry) ==
    entry.state = "direct" \/ (entry.state = "nested" /\ entry.fonts)

\* the language needs an embedded font and neither the explicit path nor
\* any of the search paths gave one
NoFontLocated ==
    /\ pc \in {"search", "returned"}
    /\ Len(searched) = Len(FONT_SEARCH_PATHS)
    /\ \A k \in 1..Len(searched) : ~Matched(searched[k])

FontErrorReturned ==
    /\ pc = "returned"
    /\ Supported(target_language)
    /\ result.error = Some(FontNotFoundError(target_language))

FontSearchPriority ==
    searched # <<>> =>
        LET n == Len(searched)
            font_filename == LangConfig(target_language).default_font
        IN /\ ~(font_path.given /\ font_path.exists)
           /\ \A k \in 1..n : searched[k].path = FONT_SEARCH_PATHS[k]
           /\ \A k \in 1..(n - 1) : ~Matched(searched[k])
           /\ found_font # None <=> Matched(searched[n])
           /\ found_font # None =>
                  /\ found_font.str[1] = searched[n].path
                  /\ found_font.str[Len(found_font.str)] = font_filename
           /\ pc \in {"register", "canvas", "layout"} => found_font # None

\* the file lies below script_dir, whose name does not contain "fonts", and
\* in /usr/share/fonts: the fourth path is the first that matches
FontSearchPriorityWitness ==
    /\ pc = "layout"
    /\ Len(searched) = 4
    /\ searched[1].state = "nested" /\ ~searched[1].fonts
    /\ searched[2].state = "missing"
    /\ searched[3].state = "absent"
    /\ searched[4].state = "nested"
    /\ found_font = Some(<<"/usr/share/fonts", "/", "*", "/",
                           "NotoSansTamil-Regular.ttf">>)

-----------------------------------------------------------------------------
(* Properties of translate_image and of the pacing of the loop *)

InCall == pc \in {"attempt", "returned"}

\* the suspensions so far are those of the attempts made after the first
OnePausePerRetry ==
    Len(slept) = IF responses = <<>> THEN 0 ELSE Len(responses) - 1

\* C15 (as first stated): no suspension before the first attempt, and the
\* suspensions before the 2nd, 3rd, 4th, ... attempts are 10, 20, 30, ...
\* seconds.
BackoffTenTwentyThirty ==
    InCall =>
        /\ OnePausePerRetry
        /\ \A k \in 1..Len(slept) : slept[k] = 10 * k

\* C15 (amended): no suspension before the first attempt, and the
\* suspensions before the 2nd, 3rd, 4th, ... attempts are 20, 30, 40, ...
\* seconds: 10 * (n + 1) before the attempt of 0-based index n.
BackoffSchedule ==
    InCall =>
        /\ OnePausePerRetry
        /\ \A k \in 1..Len(slept) : slept[k] = 10 * (k + 1)

\* a call that used its three attempts: it slept 20 s, then 30 s
BackoffWitness ==
    /\ pc = "returned"
    /\ Len(responses) = 3
    /\ slept = <<20, 30>>

\* C16: the loop pauses once before each page's call but the first of the
\* run, whatever became of the page before: i pauses when the call of page
\* i + 1 of the run is under way, N - 1 when the run over N pages is done;
\* and a call is under way only with the outcomes of all pages before it
\* recorded and none of its own.
InterPagePacing ==
    /\ InCall =>
          /\ waits = i
          /\ Len(all_translations) = i
          /\ Len(history) = i
          /\ i < Len(images)
    /\ pc = "loop" => waits = (IF i = 0 THEN 0 ELSE i - 1)
    /\ pc = "done" =>
          /\ waits = Len(images) - 1
          /\ Len(images) = end_page - start_page + 1
          /\ Len(history) = Len(images)

\* three pages, the first failed, the second did not: two pauses
InterPagePacingWitness ==
    /\ pc = "done"
    /\ Len(images) = 3
    /\ waits = 2
    /\ failed_pages = <<1>>

\* C17: with an explicit source language the reply is recorded unchanged,
\* no detected language is recorded for a page and none is exposed by the
\* run.
ExplicitModeIgnoresMarker ==
    source_lang # "Auto-detect" =>
        /\ detected_languages = <<>>
        /\ detected_language = None
        /\ \A k \in 1..Len(history) :
               CallSucceeded(k) =>
                   /\ history[k].ret.translation = history[k].response.body
                   /\ history[k].ret.detected_lang = None

\* every attempt of the call got an error status other than 404 and 429
AllErrorStatus ==
    /\ responses # <<>>
    /\ \A k \in 1..Len(responses) :
           /\ responses[k].status >= 400
           /\ responses[k].status \notin {404, 429}

\* C18 (as first stated): a call whose every attempt got such a status
\* returns after retry_count remote calls, with a failure whose reason
\* carries the status code and the body of the response.
ErrorStatusCarriesBody ==
    (pc = "returned" /\ AllErrorStatus) =>
        /\ Len(responses) = retry_count
        /\ ret.translation = None
        /\ ~ret.error.isNone
        /\ ToString(LastResponse.status) \in Range(ret.error.str)
        /\ Range(LastResponse.body.str) \subseteq Range(ret.error.str)

\* C18 (amended): a call whose every attempt got such a status returns
\* after retry_count remote calls, with a failure whose reason is
\* "HTTP Error <status>" and nothing of the response body.
ErrorStatusRetried ==
    (pc = "returned" /\ AllErrorStatus) =>
        /\ Len(responses) = retry_count
        /\ ret.translation = None
        /\ ret.error = Some(<<"HTTP Error ", ToString(LastResponse.status)>>)
        /\ Range(LastResponse.body.str) \cap Range(ret.error.str) = {}

ErrorStatusWitness ==
    /\ pc = "returned"
    /\ AllErrorStatus
    /\ Len(responses) = 3
    /\ LastResponse.body = Some(<<"Internal Server Error">>)
    /\ ret.error = Some(<<"HTTP Error ", "500">>)

\* the attempt raised: requests.post did, or reading the 2xx response did
Raised(resp) == resp.status = 0 \/ (resp.status = 200 /\ resp.body.isNone)

\* C19: a call whose every attempt raised returns after retry_count remote
\* calls with a failure whose reason is the message of the last exception;
\* a call whose attempts raised until one got a reply returns that reply's
\* translation and no error.
ExceptionsRetried ==
    (pc = "returned" /\ responses # <<>>) =>
        LET n == Len(responses)
        IN /\ (\A k \in 1..n : Raised(responses[k])) =>
                  /\ n = retry_count
                  /\ ret = Return(None, None, Some(responses[n].msg))
           /\ ( /\ \A k \in 1..(n - 1) : Raised(responses[k])
                /\ responses[n].status = 200
                /\ ~responses[n].body.isNone ) =>
                  /\ ret.error = None
                  /\ ret.translation =
                         Some(ParseReply(responses[n].body.str).translation)

\* a timeout, then two unreadable responses: the failure carries the last
\* message
ExceptionsRetriedWitness ==
    /\ pc = "returned"
    /\ Len(responses) = 3
    /\ responses[1].status = 0
    /\ responses[2].status = 200 /\ responses[2].body.isNone
    /\ responses[3].status = 200 /\ responses[3].body.isNone
    /\ ret = Return(None, None, Some(<<"Expecting value">>))

\* the attempt ended the call with a reply, or with 404
Final(resp) ==
    resp.status = 404 \/ (resp.status = 200 /\ ~resp.body.isNone)

\* the calls of translate_image so far are within the budget
CallsWithinBudget ==
    /\ Len(responses) <= retry_count
    /\ pc = "returned" => Len(responses) >= 1
    /\ \A k \in 1..Len(responses) :
           Final(responses[k]) => k = Len(responses) /\ pc = "returned"
    /\ Len(history) = i
    /\ i <= Len(images)
    /\ Len(images) <= end_page - start_page + 1
    /\ pc = "done" => i = end_page - start_page + 1

\* C22: every run comes to its end, finished or aborted; each call of
\* translate_image makes at least one and at most retry_count requests,
\* none after a request that was answered with a reply or with 404, and the
\* run makes one call per page of the range.
RunTerminatesWithinBudget ==
    /\ <>(pc \in {"done", "aborted"})
    /\ [](CallsWithinBudget)

\* a finished run over three pages whose last call used all its attempts
RunTerminatesWitness ==
    /\ pc = "done"
    /\ Len(history) = 3
    /\ history[1].response.status = 404
    /\ history[3].response.status = 429

\* the reason that goes with the response the call returned on
ReasonOf(resp) ==
    IF resp.status = 404 THEN ModelNotFound
    ELSE IF resp.status = 429 THEN RateLimited
    ELSE IF resp.status >= 400 THEN <<"HTTP Error ", ToString(resp.status)>>
    ELSE resp.msg

\* C23: a call that returns a failure returns the reason of its last
\* attempt, whatever the attempts before it came to: the rate-limit reason
\* after a 429, the status code after another error status (404: the
\* model-not-found reason), the exception's message after an exception; the
\* fallback reason is never returned.
ReasonFromLastAttempt ==
    (pc = "returned" /\ ~ret.error.isNone) =>
        /\ responses # <<>>
        /\ ret.error = Some(ReasonOf(LastResponse))
        /\ ret.error # Some(AllFailed)
        /\ LastResponse.status = 429 => ret.error = Some(RateLimited)
        /\ LastResponse.status = 500 => ret.error = Some(<<"HTTP Error ", "500">>)
        /\ Raised(LastResponse) => ret.error = Some(LastResponse.msg)

\* a timeout, a 500, then a 429: the rate-limit reason
ReasonFromLastAttemptWitness ==
    /\ pc = "returned"
    /\ Len(responses) = 3
    /\ responses[1].status = 0
    /\ responses[2].status = 500
    /\ responses[3].status = 429
    /\ ret.error = Some(RateLimited)

\* the sections the renderer lays out: the pieces that are not blank
NonBlankSections(text) ==
    SelectSeq(Sections(text), LAMBDA piece : Strip(piece) # <<>>)

\* C14: the transcript of a finished run over N pages splits on the
\* sentinel into exactly N non-blank sections, the k-th one holding the
\* rest of the k-th page's heading and that page's text (or placeholder),
\* and nothing else.
TranscriptSectionsMatchPages ==
    pc = "done" =>
        LET secs == NonBlankSections(final_translation)
        IN /\ Len(secs) = Len(images)
           /\ \A k \in 1..Len(secs) :
                  k <= Len(all_translations) =>
                      Strip(secs[k]) =
                          Strip(<<" ", ToString(images[k]), " ", "---", "\n">>
                                    \o all_translations[k].text)

-----------------------------------------------------------------------------
(* Properties of the layout *)

RECURSIVE Flatten(_)
Flatten(ps) == IF ps = <<>> THEN <<>> ELSE Head(ps).rows \o Flatten(Tail(ps))

\* every row drawn so far, in drawing order
DrawnRows == Flatten(pages) \o page_rows

RECURSIVE JoinWords(_)
JoinWords(ws) ==
    IF ws = <<>> THEN <<>>
    ELSE IF Len(ws) = 1 THEN Head(ws)
    ELSE Head(ws) \o <<" ">> \o JoinWords(Tail(ws))

Ceil(a, b) == (a + b - 1) \div b
Min(a, b) == IF a < b THEN a ELSE b

\* k words of width w with their k - 1 blanks fit in the row
Fits(k, w) == k * w + (k - 1) * SpaceWidth <= PageWidth - 100

\* the number of words of width w that fit in a row, exactly
FitCount(w) == CHOOSE k \in 0..PageWidth : Fits(k, w) /\ ~Fits(k + 1, w)

LaidOut == pc = "returned" /\ ~result.pdf_bytes.isNone

\* the lines of piece s of the text
SourceLines(s) == Split(Strip(Sections(text_content)[s]), "\n")

\* C12: when the layout is over, every non-blank source line of n words of
\* one width (the wide word is not among them) of which exactly k >= 1 fit
\* in the row has been drawn as ceil(n/k) rows, row j holding words
\* (j-1)k+1 .. min(jk, n) of the line separated by single blanks: the words
\* in their order, none lost, none twice.
GreedyWordWrap ==
    LaidOut =>
        LET pieces == Sections(text_content)
            drawn == DrawnRows
            k == FitCount(word_width)
        IN \A s \in 1..Len(pieces) :
               Strip(pieces[s]) # <<>> =>
                   LET source == Split(Strip(pieces[s]), "\n")
                   IN \A l \in 1..Len(source) :
                          LET ws == SplitWords(source[l])
                              n == Len(ws)
                              rows == SelectSeq(drawn,
                                                LAMBDA r : /\ r.section = s
                                                           /\ r.line = l)
                          IN ( /\ n > 0
                               /\ k >= 1
                               /\ \A j \in 1..n : ws[j] # <<WideWord>> ) =>
                                 /\ Len(rows) = Ceil(n, k)
                                 /\ \A j \in 1..Len(rows) :
                                        rows[j].text =
                                            JoinWords(SubSeq(ws,
                                                             (j - 1) * k + 1,
                                                             Min(j * k, n)))

\* nine words, three to a row: three rows
GreedyWordWrapWitness ==
    /\ LaidOut
    /\ text_content = Body(1, 9)
    /\ FitCount(word_width) = 3
    /\ Len(DrawnRows) = 3
    /\ DrawnRows[1].text = <<"1", " ", "2", " ", "3">>
    /\ DrawnRows[2].text = <<"4", " ", "5", " ", "6">>
    /\ DrawnRows[3].text = <<"7", " ", "8", " ", "9">>

\* the rows that can be drawn from the top while the cursor is still >= 50
RowsPerPage ==
    Cardinality({j \in 0..PageHeight :
                     (PageHeight - 50) - j * 16 >= 50})

\* the pages emitted for piece s of the text, in order
PagesOf(s) == SelectSeq(pages, LAMBDA p : p.section = s)

\* the rows drawn for piece s of the text
SectionRows(s) == SelectSeq(DrawnRows, LAMBDA r : r.section = s)

NoBlankLines(s) ==
    \A l \in 1..Len(SourceLines(s)) : Strip(SourceLines(s)[l]) # <<>>

\* C13: when the layout is over, a non-blank section without blank lines
\* that was drawn as L rows has been emitted as ceil(L / K) pages, K the
\* rows that fit between the top cursor and the bottom margin: every page
\* of the section but the last holds K rows, the last one the rest, and no
\* row is drawn below the bottom margin.
PaginationCount ==
    LaidOut =>
        \A s \in 1..Len(Sections(text_content)) :
            (Strip(Sections(text_content)[s]) # <<>> /\ NoBlankLines(s)) =>
                LET L == Len(SectionRows(s))
                    K == RowsPerPage
                    ps == PagesOf(s)
                IN /\ L >= 1
                   /\ Len(ps) = Ceil(L, K)
                   /\ \A j \in 1..Len(ps) :
                          Len(ps[j].rows) =
                              IF j < Len(ps) THEN K ELSE L - (Len(ps) - 1) * K
                   /\ \A j \in 1..L : SectionRows(s)[j].y >= 50

\* 96 rows of one word each: two overflow page breaks and the closing one
PaginationWitness ==
    /\ LaidOut
    /\ text_content = Body(12, 8)
    /\ FitCount(word_width) = 1
    /\ Len(DrawnRows) = 96
    /\ RowsPerPage = 47
    /\ Len(pages) = 3
    /\ Len(pages[3].rows) = 2

\* piece s of the text holds whitespace only
BlankSection(s) == Strip(Sections(text_content)[s]) = <<>>

\* the pieces of the text that hold more than whitespace
NonBlankPieces ==
    {s \in 1..Len(Sections(text_content)) : ~BlankSection(s)}

\* C21: a piece of whitespace only gets no row, no page and no page break;
\* the rows of a page are all of the section the page was emitted for, and
\* the rows of the page being composed are of the section being laid out;
\* between sections and at the end no page is left open, every section that
\* holds more than whitespace having been closed by a page break of its
\* own; so the pages are at least as many as those sections.
SectionsNeverShareAPage ==
    LET nonblank == NonBlankPieces
    IN /\ \A p \in 1..Len(pages) :
              /\ pages[p].section \in nonblank
              /\ \A r \in 1..Len(pages[p].rows) :
                     pages[p].rows[r].section = pages[p].section
              /\ p > 1 => pages[p - 1].section <= pages[p].section
       /\ \A r \in 1..Len(page_rows) : page_rows[r].section = section
       /\ pc \in {"sections", "returned"} =>
              /\ page_rows = <<>>
              /\ \A s \in nonblank :
                     s <= section =>
                         /\ PagesOf(s) # <<>>
                         /\ SectionRows(s) # <<>>
       /\ LaidOut => Len(pages) >= Cardinality(nonblank)

\* five pieces, the first, second and fourth of whitespace only: two pages
SectionsWitness ==
    /\ LaidOut
    /\ Len(Sections(text_content)) = 5
    /\ NonBlankPieces = {3, 5}
    /\ Len(pages) = 2
    /\ pages[1].section = 3
    /\ pages[2].section = 5

\* C24: every row was drawn with the cursor between the bottom margin and
\* the top of the page: 50 <= y <= height - 50, whatever blank lines, short
\* lines and wrapped lines came before it.
RowsWithinMargins ==
    LET drawn == DrawnRows
    IN \A r \in 1..Len(drawn) :
           /\ drawn[r].y >= 50
           /\ drawn[r].y <= PageHeight - 50

\* a run of blank lines took the cursor into the bottom margin: the line
\* after it was drawn at the top of a new page; and a row lies in the last
\* place above the margin
RowsWithinMarginsWitness ==
    /\ LaidOut
    /\ \E r \in 2..Len(DrawnRows) :
           /\ DrawnRows[r].text = <<"x">>
           /\ DrawnRows[r].y = PageHeight - 50
           /\ DrawnRows[r].line > DrawnRows[r - 1].line + 1
    /\ \E r \in 1..Len(DrawnRows) : DrawnRows[r].y < 50 + 16

\* C25: no page is emitted without a row on it.
NoEmptyPage == \A p \in 1..Len(pages) : pages[p].rows # <<>>

\* the number of words of a drawn row: the places where a word starts
WordCount(row) ==
    Cardinality({k \in 1..Len(row.text) :
                     /\ row.text[k] \notin Whitespace
                     /\ k = 1 \/ row.text[k - 1] \in Whitespace})

\* C26: a row of two or more words measures at most width - 100; a row
\* that measures more is one word, wider than that by itself.
RowsFitUnlessOneWord ==
    LET drawn == DrawnRows
    IN \A r \in 1..Len(drawn) :
           LET measured == StringWidth(drawn[r].text, word_width)
               count == WordCount(drawn[r])
           IN /\ count >= 2 => measured <= PageWidth - 100
              /\ measured > PageWidth - 100 => count = 1

\* a row of several words and a row that is the one wide word
RowsFitWitness ==
    /\ LaidOut
    /\ \E r \in 1..Len(DrawnRows) :
           /\ WordCount(DrawnRows[r]) >= 3
           /\ StringWidth(DrawnRows[r].text, word_width) <= PageWidth - 100
    /\ \E r \in 1..Len(DrawnRows) :
           /\ DrawnRows[r].text = <<WideWord>>
           /\ StringWidth(DrawnRows[r].text, word_width) > PageWidth - 100
=============================================================================
